---- MODULE Spec2Model ----
(***************************************************************************)
(* ModelMonitor (src/src/api/monitoring.py): a lock-guarded, window-bounded *)
(* store of prediction events with statistics and drift detection.          *)
(*                                                                          *)
(* Numbers.  A feature value is the exact real  u + e * 1e-8, written       *)
(* [u |-> u, e |-> e] with small integers u and e, so that values such as   *)
(* 5.0, -1.0 and -1e-8 are all representable and  older_mean + 1e-8  is     *)
(* computed exactly (floating-point rounding is not modelled).  A product   *)
(* of two values is the polynomial u + e*1e-8 + e2*1e-16.  Since every      *)
(* coefficient stays far below 1e8 the sign of such a number is the sign of *)
(* its first non-zero coefficient.  Latencies are integers in microseconds. *)
(***************************************************************************)
EXTENDS Integers, Sequences, FiniteSets, Bags, TLC

\* ------------------------------------------------------------------ bounds
NThreads == 2
MaxCalls == 3
MaxWindow == 2
MaxTime == 1
MaxDriftCalls == 1
MaxServingCalls == 2

\* ------------------------------------------------------- program constants
DefaultWindowSize == 1000
MinSamples == 100
RecentWindow == 100
HistorySamples == 200
EpsilonUnits == 1
DriftThresholdNum == 1
DriftThresholdDen == 10

\* --------------------------------------------------------- exact numbers
V(u, e) == [u |-> u, e |-> e, e2 |-> 0]
Zero == V(0, 0)
Epsilon == V(0, EpsilonUnits)

VAdd(x, y) == [u |-> x.u + y.u, e |-> x.e + y.e, e2 |-> x.e2 + y.e2]
VNeg(x) == [u |-> 0 - x.u, e |-> 0 - x.e, e2 |-> 0 - x.e2]
VSub(x, y) == VAdd(x, VNeg(y))
VScale(k, x) == [u |-> k * x.u, e |-> k * x.e, e2 |-> k * x.e2]
\* product of two numbers without e2 part
VMul(x, y) == [u |-> x.u * y.u, e |-> x.u * y.e + x.e * y.u, e2 |-> x.e * y.e]
IntSign(n) == IF n > 0 THEN 1 ELSE IF n < 0 THEN -1 ELSE 0
VSign(x) ==
    IF x.u # 0 THEN IntSign(x.u) ELSE IF x.e # 0 THEN IntSign(x.e) ELSE IntSign(x.e2)
VAbs(x) == IF VSign(x) < 0 THEN VNeg(x) ELSE x
VLess(x, y) == VSign(VSub(x, y)) < 0

\* A quotient num/den of two numbers (den # 0), kept exact.
QEq(p, q) == VMul(p.num, q.den) = VMul(q.num, p.den)
QLess(p, q) ==
    VSign(VSub(VMul(p.num, q.den), VMul(q.num, p.den))) * VSign(p.den) * VSign(q.den) < 0

\* sums over s[lo..hi], halving the range
RECURSIVE VSumRange(_, _, _)
VSumRange(s, lo, hi) ==
    IF lo > hi THEN Zero
    ELSE IF lo = hi THEN s[lo]
    ELSE LET mid == (lo + hi) \div 2
         IN VAdd(VSumRange(s, lo, mid), VSumRange(s, mid + 1, hi))
VSum(s) == VSumRange(s, 1, Len(s))

RECURSIVE IntSumRange(_, _, _)
IntSumRange(s, lo, hi) ==
    IF lo > hi THEN 0
    ELSE IF lo = hi THEN s[lo]
    ELSE LET mid == (lo + hi) \div 2
         IN IntSumRange(s, lo, mid) + IntSumRange(s, mid + 1, hi)
IntSum(s) == IntSumRange(s, 1, Len(s))

Min2(a, b) == IF a < b THEN a ELSE b

\* s[-n:] of a Python list
LastN(s, n) == IF Len(s) <= n THEN s ELSE SubSeq(s, Len(s) - n + 1, Len(s))
\* s[-hi:-lo] of a Python list, for 0 < lo < hi
SliceFromEnd(s, hi, lo) ==
    SubSeq(s, (IF Len(s) > hi THEN Len(s) - hi ELSE 0) + 1, Len(s) - lo)

\* ------------------------------------------------------------- WindowBuffer
\* mutant: the deque is created without maxlen
PushNoEvict(buf, x, W) == Append(buf, x)

\* mutant: a full deque drops its newest element instead of its oldest
PushDropNewest(buf, x, W) ==
    IF W = 0 THEN buf
    ELSE IF Len(buf) >= W THEN Append(SubSeq(buf, 1, Len(buf) - 1), x)
    ELSE Append(buf, x)

\* mutant: the deque evicts one element too early
PushEarly(buf, x, W) ==
    IF W = 0 THEN buf
    ELSE IF buf # <<>> /\ Len(buf) >= W - 1 THEN Append(Tail(buf), x)
    ELSE Append(buf, x)

\* deque(maxlen=W).append(x): the oldest element leaves when the deque is full
Push(buf, x, W) ==
    IF W = 0 THEN buf
    ELSE IF Len(buf) >= W THEN Append(Tail(buf), x)
    ELSE Append(buf, x)

\* ------------------------------------------------------------ feature_values
\* The defaultdict keeps its keys in insertion order: a sequence of
\* [key |-> i, values |-> deque], the key "feature_i" written i.
Keys(fv) == {fv[j].key : j \in 1..Len(fv)}
KeyPos(fv, k) == CHOOSE j \in 1..Len(fv) : fv[j].key = k
ValuesOf(fv, k) == fv[KeyPos(fv, k)].values

\* mutant: the per-feature deques are created without maxlen
FeatureAppendUnbounded(fv, k, x, W) ==
    IF k \in Keys(fv)
    THEN [fv EXCEPT ![KeyPos(fv, k)].values = Append(@, x)]
    ELSE Append(fv, [key |-> k, values |-> <<x>>])

\* mutant: the keys are numbered from 1, f"feature_{i + 1}"
FeatureAppendFromOne(fv, k, x, W) ==
    IF (k + 1) \in Keys(fv)
    THEN [fv EXCEPT ![KeyPos(fv, k + 1)].values = Push(@, x, W)]
    ELSE Append(fv, [key |-> k + 1, values |-> Push(<<>>, x, W)])

\* self.feature_values[f"feature_{i}"].append(float(value))
FeatureAppend(fv, k, x, W) ==
    IF k \in Keys(fv)
    THEN [fv EXCEPT ![KeyPos(fv, k)].values = Push(@, x, W)]
    ELSE Append(fv, [key |-> k, values |-> Push(<<>>, x, W)])

\* --------------------------------------------------------------- latencies
\* The optional latency argument: <<>> is None, <<x>> is the float x.
NoLatency == <<>>
\* mutant: "if latency is not None:"
TruthyNotNone(latency) == latency # NoLatency

\* "if latency:" is Python truthiness: None and 0.0 are false, all else true
Truthy(latency) == latency # NoLatency /\ latency[1] # 0

\* ----------------------------------------------------------- get_statistics
\* np.min, np.max of the non-empty s[lo..hi], halving the range
RECURSIVE VMinRange(_, _, _)
VMinRange(s, lo, hi) ==
    IF lo = hi THEN s[lo]
    ELSE LET mid == (lo + hi) \div 2
             a == VMinRange(s, lo, mid)
             b == VMinRange(s, mid + 1, hi)
         IN IF VLess(b, a) THEN b ELSE a
VMin(s) == VMinRange(s, 1, Len(s))

RECURSIVE VMaxRange(_, _, _)
VMaxRange(s, lo, hi) ==
    IF lo = hi THEN s[lo]
    ELSE LET mid == (lo + hi) \div 2
             a == VMaxRange(s, lo, mid)
             b == VMaxRange(s, mid + 1, hi)
         IN IF VLess(a, b) THEN b ELSE a
VMax(s) == VMaxRange(s, 1, Len(s))

SumSquares(s) == VSum([j \in 1..Len(s) |-> VMul(s[j], s[j])])

\* np.std squared (population variance): (n * sum(x^2) - sum(x)^2) / n^2
Variance(s) ==
    [num |-> VSub(VScale(Len(s), SumSquares(s)), VMul(VSum(s), VSum(s))),
     den |-> Len(s) * Len(s)]

FeatureStats(values) ==
    [min |-> VMin(values),
     max |-> VMax(values),
     mean |-> [num |-> VSum(values), den |-> Len(values)],
     std |-> Variance(values)]

\* np.unique(predictions_list, return_counts=True) as a mapping
Count(s, v) == Cardinality({j \in 1..Len(s) : s[j] = v})
\* mutant: np.unique without return_counts, every class present counted once
PredictionCountsPresence(preds) ==
    [v \in {preds[j] : j \in 1..Len(preds)} |-> 1]

PredictionCounts(preds) ==
    [v \in {preds[j] : j \in 1..Len(preds)} |-> Count(preds, v)]

AverageLatency(lats) ==
    IF lats # <<>> THEN [num |-> IntSum(lats), den |-> Len(lats)]
    ELSE [num |-> 0, den |-> 1]

\* mutant: the empty result does not carry the error counter
EmptyStatisticsNoErrors(errs) ==
    [request_count |-> 0,
     average_latency |-> [num |-> 0, den |-> 1],
     error_count |-> 0,
     feature_statistics |-> <<>>,
     status |-> "No predictions made yet"]

\* the result of "if not self.predictions:"
EmptyStatistics(errs) ==
    [request_count |-> 0,
     average_latency |-> [num |-> 0, den |-> 1],
     error_count |-> errs,
     feature_statistics |-> <<>>,
     status |-> "No predictions made yet"]

GetStatistics(preds, lats, fv, errs, uptime) ==
    IF preds = <<>>
    THEN EmptyStatistics(errs)
    ELSE [request_count |-> Len(preds),
          average_latency |-> AverageLatency(lats),
          error_count |-> errs,
          feature_statistics |->
              [k \in {c \in Keys(fv) : ValuesOf(fv, c) # <<>>} |->
                  FeatureStats(ValuesOf(fv, k))],
          prediction_counts |-> PredictionCounts(preds),
          uptime_seconds |-> uptime]

\* ------------------------------------------------------------- detect_drift
\* recent = values[-100:], older = values[-200:-100]; both hold 100 samples
\* when older exists, so (recent_mean - older_mean) / (older_mean + 1e-8)
\* equals (recent_sum - older_sum) / (older_sum + 100 * 1e-8).
Recent(values) == LastN(values, RecentWindow)
Older(values) == SliceFromEnd(values, HistorySamples, RecentWindow)
RelNum(values) == VSub(VSum(Recent(values)), VSum(Older(values)))
RelDen(values) == VAdd(VSum(Older(values)), VScale(Len(Older(values)), Epsilon))

\* the float division raises ZeroDivisionError when older_mean + 1e-8 = 0.0
Raises(values) == Len(values) >= HistorySamples /\ VSign(RelDen(values)) = 0

\* abs(x / y) = abs(x) / abs(y)
RelativeChange(values) == [num |-> VAbs(RelNum(values)), den |-> VAbs(RelDen(values))]
DriftThreshold == [num |-> V(DriftThresholdNum, 0), den |-> V(DriftThresholdDen, 0)]

\* mutant: drift is flagged from the threshold on, "relative_change >= drift_threshold"
DriftEntryAtLeast(values) ==
    IF Len(values) >= HistorySamples
    THEN [drift_detected |-> ~QLess(RelativeChange(values), DriftThreshold),
          relative_change |-> RelativeChange(values),
          threshold |-> DriftThreshold]
    ELSE [drift_detected |-> FALSE, reason |-> "Insufficient historical data"]

\* mutant: older = values_array[-200:-100] is compared whatever its length
DriftEntryUngated(values) ==
    [drift_detected |-> QLess(DriftThreshold, RelativeChange(values)),
     relative_change |-> RelativeChange(values),
     threshold |-> DriftThreshold]

DriftEntry(values) ==
    IF Len(values) >= HistorySamples
    THEN [drift_detected |-> QLess(DriftThreshold, RelativeChange(values)),
          relative_change |-> RelativeChange(values),
          threshold |-> DriftThreshold]
    ELSE [drift_detected |-> FALSE, reason |-> "Insufficient historical data"]

\* next(iter(self.feature_values.values()), [])
FirstValues(fv) == IF fv = <<>> THEN <<>> ELSE fv[1].values

DetectDrift(fv) ==
    IF Len(FirstValues(fv)) < MinSamples
    THEN [drift_detected |-> FALSE, reason |-> "Insufficient data"]
    ELSE IF \E j \in 1..Len(fv) : Raises(fv[j].values)
    THEN [raised |-> "ZeroDivisionError"]
    ELSE [feature_drift |-> [k \in Keys(fv) |-> DriftEntry(ValuesOf(fv, k))],
          any_drift_detected |->
              \E k \in Keys(fv) : DriftEntry(ValuesOf(fv, k)).drift_detected]

\* ------------------------------------------------------------------- inputs
Event(f, p, l) == [features |-> f, prediction |-> p, latency |-> l]
\* class labels of the served iris model
Classes == {0, 1, 2}
Latencies == {NoLatency, <<0>>, <<-2>>, <<3>>}
FeatureVectors == {<<>>, <<V(5, 0)>>, <<V(6, 0), V(5, 0)>>}
\* what one request may carry: each argument varies over its own set
Events ==
    {Event(f, 0, <<3>>) : f \in FeatureVectors}
    \cup {Event(<<V(5, 0)>>, p, <<3>>) : p \in Classes}
    \cup {Event(<<V(5, 0)>>, 0, l) : l \in Latencies}
\* The requests that fill the window before a drift check: a block of equal
\* requests followed by a second block of equal requests, <<first, second>>,
\* or <<first, second, lead>> when one request with the vector lead came
\* before the first block.
\* [-1e-6] once and [0.0] 99 times have the sum -1e-6 and the mean -1e-8 in
\* float64 as in exact arithmetic (adding 0.0 is exact, -1e-6 / 100 rounds to
\* the float -1e-8); [9e-8] -> [1e-7] has a relative change of exactly 1/10.
DriftBlocks ==
    {<<<<V(5, 0)>>, <<V(6, 0)>>>>,
     <<<<V(5, 0)>>, <<V(5, 0)>>>>,
     <<<<V(0, 0)>>, <<V(5, 0)>>>>,
     <<<<V(0, 0)>>, <<V(5, 0)>>, <<V(0, -100)>>>>,
     <<<<V(0, 9)>>, <<V(0, 10)>>>>,
     <<<<V(5, 0), V(-1, 0)>>, <<V(6, 0), V(-2, 0)>>>>,
     <<<<V(5, 0), V(-1, 0)>>, <<V(6, 0)>>>>,
     <<<<V(6, 0)>>, <<V(5, 0), V(-1, 0)>>>>}
DriftVectors == {b[j] : b \in DriftBlocks, j \in 1..2} \cup {<<V(0, -100)>>}
\* the requests made before the first block: one with the lead vector, if any
LeadCalls(b) == IF Len(b) >= 3 THEN 1 ELSE 0
LeadVector(b) == IF Len(b) >= 3 THEN b[3] ELSE <<>>
FirstBlockLengths == {99, 100}
SecondBlockLengths == {0, 100}
DriftWindows == {DefaultWindowSize, 150}
FeatureIndices ==
    UNION {0..(Len(f) - 1) : f \in FeatureVectors \cup DriftVectors}
LatencyKind(l) ==
    IF l = NoLatency THEN "absent"
    ELSE IF l[1] = 0 THEN "zero"
    ELSE IF l[1] < 0 THEN "negative" ELSE "positive"

\* -------------------------------------------------------------------- state
VARIABLES
    window_size,     \* self.window_size
    predictions,     \* self.predictions
    latencies,       \* self.latencies
    feature_values,  \* self.feature_values
    start_time,      \* self.start_time
    error_count,     \* self.error_count
    lock,            \* self.lock: the thread inside the section, Free if none
    thread,          \* per thread: where it is in its call, and its locals
    now,             \* the last instant time.time() returned
    ret,             \* the value the last finished call returned
    budget,          \* calls the environment may still start
    hist,            \* history: every value ever appended, per buffer
    done             \* history: the calls that have returned; the get_statistics
                     \* calls since the last log_prediction, the last one's result
                     \* and the last detect_drift report since then

vars ==
    <<window_size, predictions, latencies, feature_values, start_time, error_count,
      lock, thread, now, ret, budget, hist, done>>
monitor == <<window_size, predictions, latencies, feature_values, start_time, error_count>>

Threads == 1..NThreads
Free == 0
Idle == [pc |-> "idle", ev |-> Event(<<>>, 0, NoLatency), i |-> 0, tmp |-> 0]
None == [none |-> TRUE]
NoHist == [pred |-> <<>>, lat |-> <<>>, feat |-> [k \in FeatureIndices |-> <<>>]]
NoneDone ==
    [calls |-> 0, lat |-> 0, feat |-> [k \in FeatureIndices |-> 0], errs |-> 0,
     preds |-> EmptyBag, shapes |-> {}, stats |-> None, reads |-> 0,
     report |-> None]

\* the history after one more whole log_prediction call
RECURSIVE FeatHistAfter(_, _, _)
FeatHistAfter(f, features, k) ==
    IF k >= Len(features) THEN f
    ELSE FeatHistAfter([f EXCEPT ![k] = Append(@, features[k + 1])], features, k + 1)
HistAfter(h, ev) ==
    [pred |-> Append(h.pred, ev.prediction),
     lat |-> IF ev.latency # NoLatency /\ ev.latency[1] # 0
             THEN Append(h.lat, ev.latency[1]) ELSE h.lat,
     feat |-> FeatHistAfter(h.feat, ev.features, 0)]
RECURSIVE FeatDoneAfter(_, _, _)
FeatDoneAfter(f, features, k) ==
    IF k >= Len(features) THEN f
    ELSE FeatDoneAfter([f EXCEPT ![k] = @ + 1], features, k + 1)
DoneAfter(d, ev) ==
    [d EXCEPT !.calls = @ + 1,
              !.lat = IF ev.latency # NoLatency /\ ev.latency[1] # 0 THEN @ + 1 ELSE @,
              !.feat = FeatDoneAfter(@, ev.features, 0),
              !.preds = @ (+) SetToBag({ev.prediction}),
              !.stats = None,
              !.reads = 0,
              !.report = None,
              !.shapes = IF <<Len(ev.features), LatencyKind(ev.latency)>> \in @ THEN @
                         ELSE @ \cup {<<Len(ev.features), LatencyKind(ev.latency)>>}]

\* ------------------------------------------------- whole calls, for histories
RECURSIVE AppendFeatures(_, _, _, _)
AppendFeatures(fv, features, i, W) ==
    IF i >= Len(features) THEN fv
    ELSE AppendFeatures(FeatureAppend(fv, i, features[i + 1], W), features, i + 1, W)

\* one whole log_prediction call on the buffers m
LogPrediction(m, ev, W) ==
    [predictions |-> Push(m.predictions, ev.prediction, W),
     latencies |-> IF Truthy(ev.latency) THEN Push(m.latencies, ev.latency[1], W)
                   ELSE m.latencies,
     feature_values |-> AppendFeatures(m.feature_values, ev.features, 0, W),
     hist |-> HistAfter(m.hist, ev),
     done |-> DoneAfter(m.done, ev)]

\* n whole calls with the same arguments, one after the other: the first
\* half of them, then the rest on the buffers the first half left
RECURSIVE Repeat(_, _, _, _)
Repeat(m, ev, n, W) ==
    IF n = 0 THEN m
    ELSE IF n = 1 THEN LogPrediction(m, ev, W)
    ELSE CHOOSE after \in
             {Repeat(half, ev, n - (n \div 2), W) : half \in {Repeat(m, ev, n \div 2, W)}} :
             TRUE

Fresh ==
    [predictions |-> <<>>, latencies |-> <<>>, feature_values |-> <<>>,
     hist |-> NoHist, done |-> NoneDone]

\* ---------------------------------------------------------------- __init__
\* ModelMonitor(window_size): empty deques, no error, the lock free
Init ==
    /\ window_size \in 1..MaxWindow
    /\ predictions = <<>>
    /\ latencies = <<>>
    /\ feature_values = <<>>
    /\ start_time = 0
    /\ error_count = 0
    /\ lock = Free
    /\ thread = [t \in Threads |-> Idle]
    /\ now = 0
    /\ ret = [op |-> "none", value |-> None]
    /\ budget = MaxCalls
    /\ hist = NoHist
    /\ done = NoneDone

\* ------------------------------------------------------------ calls start
Call(t, op, ev) ==
    /\ thread[t].pc = "idle"
    /\ budget > 0
    /\ budget' = budget - 1
    /\ thread' = [thread EXCEPT ![t] = [pc |-> op, ev |-> ev, i |-> 0, tmp |-> 0]]
    /\ UNCHANGED <<monitor, lock, now, ret, hist, done>>

CallLogPrediction(t) == \E ev \in Events : Call(t, "lp_wait", ev)
CallLogError(t) == Call(t, "le_wait", Idle.ev)
CallGetStatistics(t) == Call(t, "gs_wait", Idle.ev)
CallDetectDrift(t) == Call(t, "dd_wait", Idle.ev)

\* ---------------------------------------------------------- with self.lock:
\* mutant: the section is entered without taking the lock
CanAcquireAlways(t) == TRUE

\* mutant: log_error increments the counter without taking the lock
CanAcquireErrors(t) == lock = Free \/ thread[t].pc = "le_wait"

\* threading.Lock: acquire blocks while another thread holds the lock
CanAcquire(t) == lock = Free
Body(pc) ==
    CASE pc = "lp_wait" -> "lp_pred"
      [] pc = "le_wait" -> "le_read"
      [] pc = "gs_wait" -> "gs_body"
      [] pc = "dd_wait" -> "dd_body"

Acquire(t) ==
    /\ thread[t].pc \in {"lp_wait", "le_wait", "gs_wait", "dd_wait"}
    /\ CanAcquire(t)
    /\ lock' = t
    /\ thread' = [thread EXCEPT ![t].pc = Body(@)]
    /\ UNCHANGED <<monitor, now, ret, budget, hist, done>>

\* ------------------------------------------------------------ log_prediction
\* self.predictions.append(int(prediction))
LPAppendPrediction(t) ==
    /\ thread[t].pc = "lp_pred"
    /\ predictions' = Push(predictions, thread[t].ev.prediction, window_size)
    /\ hist' = [hist EXCEPT !.pred = Append(@, thread[t].ev.prediction)]
    /\ thread' = [thread EXCEPT ![t].pc = "lp_lat"]
    /\ UNCHANGED <<window_size, latencies, feature_values, start_time, error_count,
                   lock, now, ret, budget, done>>

\* if latency: self.latencies.append(float(latency))
LPAppendLatency(t) ==
    /\ thread[t].pc = "lp_lat"
    /\ IF Truthy(thread[t].ev.latency)
       THEN /\ latencies' = Push(latencies, thread[t].ev.latency[1], window_size)
            /\ hist' = [hist EXCEPT !.lat = Append(@, thread[t].ev.latency[1])]
       ELSE UNCHANGED <<latencies, hist>>
    /\ thread' = [thread EXCEPT ![t].pc = "lp_feat", ![t].i = 0]
    /\ UNCHANGED <<window_size, predictions, feature_values, start_time, error_count,
                   lock, now, ret, budget, done>>

\* one turn of: for i, value in enumerate(features): ...append(float(value))
LPAppendFeature(t) ==
    /\ thread[t].pc = "lp_feat"
    /\ thread[t].i < Len(thread[t].ev.features)
    /\ LET i == thread[t].i
           value == thread[t].ev.features[i + 1]
       IN /\ feature_values' = FeatureAppend(feature_values, i, value, window_size)
          /\ hist' = [hist EXCEPT !.feat[i] = Append(@, value)]
    /\ thread' = [thread EXCEPT ![t].i = @ + 1]
    /\ UNCHANGED <<window_size, predictions, latencies, start_time, error_count,
                   lock, now, ret, budget, done>>

\* the loop is over: the with block ends, the lock is released, None returned
LPReturn(t) ==
    /\ thread[t].pc = "lp_feat"
    /\ thread[t].i >= Len(thread[t].ev.features)
    /\ lock' = Free
    /\ ret' = [op |-> "log_prediction", value |-> None]
    /\ done' = DoneAfter(done, thread[t].ev)
    /\ thread' = [thread EXCEPT ![t] = Idle]
    /\ UNCHANGED <<monitor, now, budget, hist>>

\* ----------------------------------------------------------------- log_error
\* self.error_count += 1 reads the counter, then stores it
LERead(t) ==
    /\ thread[t].pc = "le_read"
    /\ thread' = [thread EXCEPT ![t].pc = "le_write", ![t].tmp = error_count]
    /\ UNCHANGED <<monitor, lock, now, ret, budget, hist, done>>

LEWrite(t) ==
    /\ thread[t].pc = "le_write"
    /\ error_count' = thread[t].tmp + 1
    /\ lock' = Free
    /\ ret' = [op |-> "log_error", value |-> None]
    /\ done' = [done EXCEPT !.errs = @ + 1]
    /\ thread' = [thread EXCEPT ![t] = Idle]
    /\ UNCHANGED <<window_size, predictions, latencies, feature_values, start_time,
                   now, budget, hist>>

\* ------------------------------------------------------------ get_statistics
\* mutant: the snapshot empties the latency window it has averaged
GSReadAndReset(t) ==
    /\ thread[t].pc = "gs_body"
    /\ \E clock \in now..MaxTime :
        /\ now' = (IF predictions = <<>> THEN now ELSE clock)
        /\ LET result == GetStatistics(predictions, latencies, feature_values,
                                       error_count, clock - start_time)
           IN /\ ret' = [op |-> "get_statistics", value |-> result]
              /\ done' = [done EXCEPT !.stats = result, !.reads = @ + 1]
    /\ latencies' = <<>>
    /\ lock' = Free
    /\ thread' = [thread EXCEPT ![t] = Idle]
    /\ UNCHANGED <<window_size, predictions, feature_values, start_time, error_count,
                   budget, hist>>

\* time.time() is read once, in the non-empty branch: any instant not before
\* the last one read
GSRead(t) ==
    /\ thread[t].pc = "gs_body"
    /\ \E clock \in now..MaxTime :
        /\ now' = (IF predictions = <<>> THEN now ELSE clock)
        /\ LET result == GetStatistics(predictions, latencies, feature_values,
                                       error_count, clock - start_time)
           IN /\ ret' = [op |-> "get_statistics", value |-> result]
              /\ done' = [done EXCEPT !.stats = result, !.reads = @ + 1]
    /\ lock' = Free
    /\ thread' = [thread EXCEPT ![t] = Idle]
    /\ UNCHANGED <<monitor, budget, hist>>

\* -------------------------------------------------------------- detect_drift
\* mutant: the call drops the older sub-window once it has compared it
DDReadConsuming(t) ==
    /\ thread[t].pc = "dd_body"
    /\ LET report == DetectDrift(feature_values)
       IN /\ ret' = [op |-> "detect_drift", value |-> report]
          /\ done' = [done EXCEPT !.report = report]
    /\ feature_values' =
        [j \in 1..Len(feature_values) |->
            [feature_values[j] EXCEPT !.values = Recent(@)]]
    /\ lock' = Free
    /\ thread' = [thread EXCEPT ![t] = Idle]
    /\ UNCHANGED <<window_size, predictions, latencies, start_time, error_count,
                   now, budget, hist>>

\* mutant: acquire() and release() around the body with no try/finally, so
\* a call that raises leaves the lock held
DDReadLeaking(t) ==
    /\ thread[t].pc = "dd_body"
    /\ LET report == DetectDrift(feature_values)
       IN /\ ret' = [op |-> "detect_drift", value |-> report]
          /\ done' = [done EXCEPT !.report = report]
    /\ lock' = (IF "raised" \in DOMAIN DetectDrift(feature_values) THEN lock ELSE Free)
    /\ thread' = [thread EXCEPT ![t] = Idle]
    /\ UNCHANGED <<monitor, now, budget, hist>>

\* the with block ends by return or by the exception of line 63: either way
\* the lock is released
DDRead(t) ==
    /\ thread[t].pc = "dd_body"
    /\ LET report == DetectDrift(feature_values)
       IN /\ ret' = [op |-> "detect_drift", value |-> report]
          /\ done' = [done EXCEPT !.report = report]
    /\ lock' = Free
    /\ thread' = [thread EXCEPT ![t] = Idle]
    /\ UNCHANGED <<monitor, now, budget, hist>>

Next ==
    \/ \E t \in Threads :
        \/ CallLogPrediction(t)
        \/ CallLogError(t)
        \/ CallGetStatistics(t)
        \/ CallDetectDrift(t)
        \/ Acquire(t)
        \/ LPAppendPrediction(t)
        \/ LPAppendLatency(t)
        \/ LPAppendFeature(t)
        \/ LPReturn(t)
        \/ LERead(t)
        \/ LEWrite(t)
        \/ GSRead(t)
        \/ DDRead(t)

Spec == Init /\ [][Next]_vars

\* A monitor with window W that has served the requests of b, n1 of the first
\* block and n2 of the second, one thread at a time, and goes on to serve
\* the given number of calls: the windows are long enough for detect_drift
\* to compare sub-windows.
Prefilled(W, b, n1, n2, calls) ==
    LET m == Repeat(Repeat(Repeat(Fresh, Event(LeadVector(b), 0, <<3>>),
                                  LeadCalls(b), W),
                           Event(b[1], 0, <<3>>), n1, W),
                    Event(b[2], 0, <<3>>), n2, W)
    IN /\ window_size = W
       /\ predictions = m.predictions
       /\ latencies = m.latencies
       /\ feature_values = m.feature_values
       /\ hist = m.hist
       /\ done = m.done
       /\ start_time = 0
       /\ error_count = 0
       /\ lock = Free
       /\ thread = [t \in Threads |-> Idle]
       /\ now = 0
       /\ ret = [op |-> "none", value |-> None]
       /\ budget = calls

InitDrift ==
    \E W \in DriftWindows, b \in DriftBlocks,
       n1 \in FirstBlockLengths, n2 \in SecondBlockLengths :
        Prefilled(W, b, n1, n2, MaxDriftCalls)

SpecDrift == InitDrift /\ [][Next]_vars

\* A monitor in service: windows below 100, below 200 and of the default
\* size, filled by earlier requests, and threads that go on calling it.
\* <<window_size, blocks, first block length, second block length>>
ServingScenarios ==
    {<<DefaultWindowSize, <<<<V(5, 0)>>, <<V(6, 0)>>>>, 100, 100>>,
     <<150, <<<<V(5, 0), V(-1, 0)>>, <<V(6, 0)>>>>, 100, 100>>,
     <<99, <<<<V(5, 0)>>, <<V(6, 0)>>>>, 100, 100>>}
\* a monitor in service on whose buffers detect_drift raises, until the next
\* request moves the sub-windows
FairScenarios ==
    {<<DefaultWindowSize, <<<<V(0, 0)>>, <<V(5, 0)>>, <<V(0, -100)>>>>, 99, 100>>}

InitServing ==
    \E sc \in ServingScenarios :
        Prefilled(sc[1], sc[2], sc[3], sc[4], MaxServingCalls)

SpecServing == InitServing /\ [][Next]_vars

\* the steps thread t takes inside log_prediction and log_error, and to
\* enter any section
WriteStep(t) ==
    \/ Acquire(t)
    \/ LPAppendPrediction(t)
    \/ LPAppendLatency(t)
    \/ LPAppendFeature(t)
    \/ LPReturn(t)
    \/ LERead(t)
    \/ LEWrite(t)
\* thread t is in the body of get_statistics or detect_drift
InRead(t) == thread[t].pc \in {"gs_body", "dd_body"}

\* Fair scheduling: a thread that can go on does, and a thread that waits for
\* the lock gets it if it is free again and again. Starting a call is the
\* caller's choice and is not forced. The body of get_statistics and of
\* detect_drift is one step, enabled exactly when InRead(t) and ending it,
\* so weak fairness of that step, WF_vars(GSRead(t) \/ DDRead(t)), is
\* []<>~InRead(t).
Fairness ==
    \A t \in Threads :
        /\ WF_vars(WriteStep(t))
        /\ SF_vars(Acquire(t))
        /\ []<>~InRead(t)

InitFair ==
    \E sc \in FairScenarios :
        Prefilled(sc[1], sc[2], sc[3], sc[4], MaxServingCalls)

SpecFair == InitFair /\ [][Next]_vars /\ Fairness

\* =================================================================== claims
AllIdle == \A t \in Threads : thread[t].pc = "idle"
InSection(t) == thread[t].pc \in {"lp_pred", "lp_lat", "lp_feat"}
Reading(t) == thread[t].pc \in {"gs_body", "dd_body"}
Retained ==
    Len(predictions) + Len(latencies)
    + IntSum([j \in 1..Len(feature_values) |-> Len(feature_values[j].values)])
Distinct(s) == \A a, b \in 1..Len(s) : a # b => s[a] # s[b]

\* C1: in every reachable state the prediction buffer, the latency buffer and
\* every feature buffer hold at most window_size elements, and the retained
\* samples number at most window_size * (2 + number of feature keys seen).
C1_BoundedMemory ==
    /\ Len(predictions) <= window_size
    /\ Len(latencies) <= window_size
    /\ \A j \in 1..Len(feature_values) : Len(feature_values[j].values) <= window_size
    /\ Retained <= window_size * (2 + Cardinality(Keys(feature_values)))

\* C1 witness: more record calls than the window holds were made and every
\* buffer is full, a feature buffer included.
C1_Witness ==
    /\ done.calls > window_size
    /\ feature_values # <<>>
    /\ Retained = window_size * (2 + Cardinality(Keys(feature_values)))

\* C2: once N <= window_size log_prediction calls with distinct prediction
\* values, made by concurrent threads, have all returned, get_statistics
\* reports request_count = N and counts every one of the N values once.
C2_NoLostUpdates ==
    ( /\ AllIdle
      /\ ret.op = "get_statistics"
      /\ done.calls >= 1
      /\ done.calls <= window_size
      /\ \A v \in BagToSet(done.preds) : CopiesIn(v, done.preds) = 1 )
    => /\ ret.value.request_count = done.calls
       /\ ret.value.prediction_counts = [v \in BagToSet(done.preds) |-> 1]

\* C2 witness: two calls with different prediction values returned, then
\* get_statistics.
C2_Witness ==
    /\ AllIdle
    /\ ret.op = "get_statistics"
    /\ done.calls = 2
    /\ window_size >= 2
    /\ Cardinality(BagToSet(done.preds)) = 2
    /\ ret.value.request_count = 2

\* every append made so far belongs to a call that has returned
WholeCalls ==
    /\ Len(hist.pred) = done.calls
    /\ Len(hist.lat) = done.lat
    /\ \A k \in FeatureIndices : Len(hist.feat[k]) = done.feat[k]

\* C3: whenever get_statistics or detect_drift is inside the critical
\* section, every record call has been applied entirely or not at all; and
\* when all records so far carried a positive latency and k features and
\* fewer than window_size were made, the reader finds the prediction buffer,
\* the latency buffer and the k feature buffers with one and the same length.
C3_AtomicEvent ==
    \A t \in Threads : Reading(t) =>
        /\ WholeCalls
        /\ \A k \in 1..Cardinality(FeatureIndices) :
            (hist.pred # <<>> /\ done.shapes \subseteq {<<k, "positive">>}
             /\ Len(hist.pred) < window_size)
            => /\ Len(latencies) = Len(predictions)
               /\ Keys(feature_values) = 0..(k - 1)
               /\ \A j \in 1..Len(feature_values) :
                    Len(feature_values[j].values) = Len(predictions)

\* C3 witness: a reader is inside the section after a record with a positive
\* latency and two features, while another thread waits to record.
C3_Witness ==
    \E t, w \in Threads :
        /\ Reading(t)
        /\ thread[w].pc = "lp_wait"
        /\ done.shapes = {<<2, "positive">>}
        /\ Len(predictions) < window_size

\* C4 as stated: after N > window_size record calls every buffer (predictions,
\* latencies, each feature buffer) has length min(N, window_size).
C4_Original ==
    (AllIdle /\ done.calls > window_size) =>
        /\ Len(predictions) = Min2(done.calls, window_size)
        /\ Len(latencies) = Min2(done.calls, window_size)
        /\ \A j \in 1..Len(feature_values) :
            Len(feature_values[j].values) = Min2(done.calls, window_size)

\* C4 amended: after any sequence of record calls the prediction buffer has
\* length min(N, W); the latency buffer min(L, W), L the calls with a present
\* non-zero latency; the buffer of feature i min(F_i, W), F_i the calls whose
\* vector has more than i entries, and a key exists exactly when F_i > 0.
C4_BufferLengths ==
    AllIdle =>
        /\ Len(predictions) = Min2(done.calls, window_size)
        /\ Len(latencies) = Min2(done.lat, window_size)
        /\ Keys(feature_values) = {k \in FeatureIndices : done.feat[k] > 0}
        /\ \A k \in Keys(feature_values) :
            Len(ValuesOf(feature_values, k)) = Min2(done.feat[k], window_size)

\* C4 witness: more calls than the window holds, some without a latency and
\* some without the second feature.
C4_Witness ==
    /\ AllIdle
    /\ done.calls > window_size
    /\ done.lat < done.calls
    /\ done.feat[1] > 0
    /\ done.feat[1] < done.feat[0]

\* C5: each buffer holds exactly the last min(n, window_size) of the n values
\* appended to it, in insertion order.
C5_FifoEviction ==
    /\ predictions = LastN(hist.pred, window_size)
    /\ latencies = LastN(hist.lat, window_size)
    /\ \A k \in Keys(feature_values) :
        ValuesOf(feature_values, k) = LastN(hist.feat[k], window_size)

\* C5 witness: window_size + 1 distinct values were appended to the
\* prediction buffer; the first is gone and the rest keep their order.
C5_Witness ==
    /\ window_size >= 2
    /\ Len(hist.pred) = window_size + 1
    /\ Distinct(hist.pred)
    /\ predictions = Tail(hist.pred)
    /\ \E k \in Keys(feature_values) : Len(hist.feat[k]) > window_size

\* C6: get_statistics on an empty prediction buffer returns request_count 0,
\* average_latency 0.0, no feature statistics, the no-predictions status and
\* the current error counter.
C6_EmptyState ==
    (ret.op = "get_statistics" /\ hist.pred = <<>>) =>
        ret.value = [request_count |-> 0,
                     average_latency |-> [num |-> 0, den |-> 1],
                     error_count |-> error_count,
                     feature_statistics |-> <<>>,
                     status |-> "No predictions made yet"]

\* C6 witness: get_statistics returned after two log_error calls and before
\* any prediction was recorded.
C6_Witness ==
    /\ ret.op = "get_statistics"
    /\ hist.pred = <<>>
    /\ done.errs = 2
    /\ error_count = 2
    /\ ret.value.error_count = 2

\* C7 as stated: every element of the latency buffer is strictly positive, so
\* the average latency is never negative.
C7_PositiveLatencies ==
    /\ \A j \in 1..Len(latencies) : latencies[j] > 0
    /\ AverageLatency(latencies).num >= 0

\* C8: a log_prediction call whose latency is 0.0 or absent leaves the latency
\* buffer unchanged in every step, and has appended its prediction and its
\* feature values when it returns.
C8_LatencyZeroQuirk ==
    [][\A t \in Threads :
        (InSection(t) /\ LatencyKind(thread[t].ev.latency) \in {"absent", "zero"}) =>
            /\ latencies' = latencies
            /\ thread'[t].pc = "idle" =>
                /\ predictions # <<>>
                /\ predictions[Len(predictions)] = thread[t].ev.prediction
                /\ \A k \in 0..(Len(thread[t].ev.features) - 1) :
                    /\ k \in Keys(feature_values)
                    /\ LastN(ValuesOf(feature_values, k), 1) = <<thread[t].ev.features[k + 1]>>
      ]_vars

\* C8 witness: calls with a zero and with an absent latency returned while
\* the latency buffer holds a value recorded earlier.
C8_Witness ==
    /\ AllIdle
    /\ {"zero", "absent"} \subseteq {sh[2] : sh \in done.shapes}
    /\ done.calls = 3
    /\ latencies = hist.lat
    /\ Len(latencies) = 1

\* the report detect_drift just returned, the buffers unchanged since
DriftReported == AllIdle /\ ret.op = "detect_drift" /\ "raised" \notin DOMAIN ret.value
EntryOf(k) == ret.value.feature_drift[k]
HasEntry(k) ==
    /\ "feature_drift" \in DOMAIN ret.value
    /\ k \in DOMAIN ret.value.feature_drift
HasReason(k, reason) ==
    /\ HasEntry(k)
    /\ "reason" \in DOMAIN EntryOf(k)
    /\ EntryOf(k).reason = reason
    /\ ~EntryOf(k).drift_detected
\* "Insufficient data" said of feature k, in its own entry or for the whole report
SaysInsufficientData(k) ==
    \/ ret.value = [drift_detected |-> FALSE, reason |-> "Insufficient data"]
    \/ HasReason(k, "Insufficient data")

\* C9 as stated: detect_drift classifies every feature key by the length n of
\* its own buffer, also when the buffers differ in length: n < 100 is reported
\* as "Insufficient data" for that feature, 100 <= n < 200 as an
\* "Insufficient historical data" entry, n >= 200 as an entry with
\* relative_change and threshold.
C9_PerFeatureClassification ==
    DriftReported =>
        \A k \in Keys(feature_values) :
            LET n == Len(ValuesOf(feature_values, k))
            IN /\ n < 100 => SaysInsufficientData(k)
               /\ (100 <= n /\ n < 200) => HasReason(k, "Insufficient historical data")
               /\ n >= 200 =>
                    /\ HasEntry(k)
                    /\ {"relative_change", "threshold"} \subseteq DOMAIN EntryOf(k)

\* |recent_sum - older_sum| / (|older_sum| + 100 * epsilon), which is
\* |mean(recent) - mean(older)| / (|mean(older)| + epsilon)
StatedRelativeChange(values) ==
    LET n == Len(values)
        recent == SubSeq(values, n - 99, n)
        older == SubSeq(values, n - 199, n - 100)
    IN [num |-> VAbs(VSub(VSum(recent), VSum(older))),
        den |-> VAdd(VAbs(VSum(older)), V(0, 100))]

\* C10 as stated: for every feature with at least 200 samples the reported
\* relative_change equals |mean(recent) - mean(older)| / (|mean(older)| + 1e-8),
\* whatever the sign of mean(older).
C10_RelativeChangeFormula ==
    (DriftReported /\ "feature_drift" \in DOMAIN ret.value) =>
        \A k \in Keys(feature_values) :
            Len(ValuesOf(feature_values, k)) >= 200 =>
                /\ "relative_change" \in DOMAIN EntryOf(k)
                /\ QEq(EntryOf(k).relative_change,
                       StatedRelativeChange(ValuesOf(feature_values, k)))

\* C11 as stated: detect_drift is total: whatever the feature buffers hold,
\* an older sub-window whose mean is zero, negative or exactly -1e-8
\* included, the call returns a report and raises no exception.
C11_DetectDriftTotal ==
    ret.op = "detect_drift" => "raised" \notin DOMAIN ret.value

\* p > q, for quotients whose denominators are positive
Exceeds(p, q) == VLess(VMul(q.num, p.den), VMul(p.num, q.den))
Ratio(a, b) == [num |-> V(a, 0), den |-> V(b, 0)]
AllEqual(s, v) == \A j \in 1..Len(s) : s[j] = v

\* C12: in a returned report, every feature with at least 200 samples has an
\* entry whose drift_detected is true exactly when its relative_change is
\* strictly greater than its threshold, 0.1: 200 identical samples give
\* relative_change 0 and no drift, 100 samples of 5.0 followed by 100 of 6.0
\* give a relative_change of about 0.2 and drift, and a relative_change equal
\* to the threshold is not drift.
C12_DriftThreshold ==
    (DriftReported /\ "feature_drift" \in DOMAIN ret.value) =>
        \A k \in Keys(feature_values) :
            LET values == ValuesOf(feature_values, k)
                n == Len(values)
            IN n >= 200 =>
                LET entry == EntryOf(k)
                    recent == SubSeq(values, n - 99, n)
                    older == SubSeq(values, n - 199, n - 100)
                IN /\ {"relative_change", "threshold"} \subseteq DOMAIN entry
                   /\ QEq(entry.threshold, Ratio(1, 10))
                   /\ entry.drift_detected
                        <=> Exceeds(entry.relative_change, entry.threshold)
                   /\ QEq(entry.relative_change, entry.threshold)
                        => ~entry.drift_detected
                   /\ AllEqual(older, recent[1]) /\ AllEqual(recent, recent[1])
                        => /\ entry.relative_change.num = Zero
                           /\ ~entry.drift_detected
                   /\ AllEqual(older, V(5, 0)) /\ AllEqual(recent, V(6, 0))
                        => /\ entry.drift_detected
                           /\ Exceeds(entry.relative_change, Ratio(19, 100))
                           /\ Exceeds(Ratio(2, 10), entry.relative_change)

\* C12 witness: a report on 200 samples whose relative_change is exactly the
\* threshold, 100 samples of 9e-8 followed by 100 of 1e-7, and says no drift.
C12_Witness ==
    /\ DriftReported
    /\ HasEntry(0)
    /\ Len(ValuesOf(feature_values, 0)) >= 200
    /\ QEq(EntryOf(0).relative_change, Ratio(1, 10))
    /\ ~EntryOf(0).drift_detected

\* C13 as stated: every report detect_drift returns, also with no feature
\* seen and with insufficient data, holds a feature_drift map and an
\* any_drift_detected flag, and the flag is the OR of the drift_detected
\* flags of the entries of the map (false when it is empty).
C13_ReportShape ==
    (ret.op = "detect_drift" /\ "raised" \notin DOMAIN ret.value) =>
        /\ {"feature_drift", "any_drift_detected"} \subseteq DOMAIN ret.value
        /\ ret.value.any_drift_detected
            <=> \E k \in DOMAIN ret.value.feature_drift :
                    ret.value.feature_drift[k].drift_detected

\* the step in which thread t returns from its call
Returns(t) == thread[t].pc # "idle" /\ thread'[t].pc = "idle"
\* a get_statistics call returns, an earlier one has, no log_prediction since
SecondRead ==
    /\ done.stats # None
    /\ \E t \in Threads : thread[t].pc = "gs_body" /\ Returns(t)

\* C14 as stated: two consecutive get_statistics calls with no intervening
\* log_prediction call return identical results in every field.
C14_Original ==
    [][SecondRead => ret'.value = done.stats]_vars

\* C14 amended: two consecutive get_statistics calls with no log_prediction
\* and no log_error call returning in between (detect_drift calls may) return
\* results with the same fields, identical in every field but uptime_seconds.
C14_IdempotentReads ==
    [][(SecondRead /\ done.stats.error_count = error_count) =>
        /\ DOMAIN ret'.value = DOMAIN done.stats
        /\ \A f \in DOMAIN done.stats \ {"uptime_seconds"} :
            ret'.value[f] = done.stats[f]
      ]_vars

\* C14 witness: with predictions recorded, a second get_statistics in a row
\* has returned, at a later instant than the monitor was built.
C14_Witness ==
    /\ AllIdle
    /\ ret.op = "get_statistics"
    /\ done.reads = 2
    /\ done.calls = 1
    /\ done.errs = 0
    /\ ret.value = done.stats
    /\ "uptime_seconds" \in DOMAIN ret.value
    /\ ret.value.uptime_seconds > 0

buffers == <<predictions, latencies, feature_values>>

\* C15: the error counter equals the number of log_error calls that have
\* returned, under every interleaving; the step that ends a log_error raises
\* it by exactly 1, no other step changes it, no step of log_error changes a
\* buffer, and get_statistics reports it as error_count in the empty and in
\* the non-empty result.
C15_ErrorCounter ==
    /\ [](error_count = done.errs)
    /\ [](ret.op = "get_statistics" => ret.value.error_count = error_count)
    /\ [][\A t \in Threads :
            /\ (thread[t].pc = "le_write" /\ Returns(t))
                => error_count' = error_count + 1
            /\ (thread[t].pc \in {"le_wait", "le_read", "le_write"}
                /\ thread'[t] # thread[t])
                => buffers' = buffers
            /\ ~(\E w \in Threads : thread[w].pc = "le_write" /\ Returns(w))
                => error_count' = error_count
         ]_vars

\* C15 witness: after a recorded prediction and a log_error call, the
\* non-empty get_statistics result reports one error.
C15_Witness ==
    /\ AllIdle
    /\ ret.op = "get_statistics"
    /\ done.calls = 1
    /\ done.errs = 1
    /\ "prediction_counts" \in DOMAIN ret.value
    /\ ret.value.error_count = 1

\* thread t is inside a with self.lock block
Holding(t) ==
    thread[t].pc \in {"lp_pred", "lp_lat", "lp_feat", "le_read", "le_write",
                      "gs_body", "dd_body"}

ReadPcs == {"gs_wait", "gs_body", "dd_wait", "dd_body"}
\* thread t takes a step of a get_statistics or detect_drift call
ReadStep(t) ==
    /\ thread'[t] # thread[t]
    /\ thread[t].pc \in ReadPcs \/ thread'[t].pc \in ReadPcs

\* C16: no step of a get_statistics or detect_drift call, from its start to
\* its return, changes the prediction buffer, the latency buffer, a feature
\* buffer, the set of feature keys or the error counter; and a detect_drift
\* call returns the report the previous one returned if no log_prediction
\* call returned in between.
C16_ReadOnly ==
    [][\A t \in Threads : ReadStep(t) =>
            /\ buffers' = buffers
            /\ Keys(feature_values') = Keys(feature_values)
            /\ error_count' = error_count
            /\ (thread[t].pc = "dd_body" /\ done.report # None)
                => ret'.value = done.report
      ]_vars

\* C16 witness: on 100 samples of 5.0 followed by 100 of 6.0, two
\* detect_drift calls in a row have returned, the second one a report that
\* flags drift.
C16_Witness ==
    /\ AllIdle
    /\ budget = 0
    /\ MaxServingCalls >= 2
    /\ done.calls = 200
    /\ done.errs = 0
    /\ done.reads = 0
    /\ ret.op = "detect_drift"
    /\ ret.value = done.report
    /\ "any_drift_detected" \in DOMAIN ret.value
    /\ ret.value.any_drift_detected

\* the count a prediction_counts mapping gives class c, 0 if it has none
CountFor(counts, c) == IF c \in DOMAIN counts THEN counts[c] ELSE 0
\* the last get_statistics result is of the prediction buffer as it is now:
\* no call has returned since, and no log_prediction has appended since
StatisticsCurrent ==
    /\ ret.op = "get_statistics"
    /\ Len(hist.pred) = done.calls

\* C18: a get_statistics result on a non-empty prediction buffer has
\* request_count = the length of the prediction buffer = min(number of
\* log_prediction calls, window_size), and prediction_counts maps exactly the
\* classes now in the buffer to the number of their occurrences in it; the
\* counts add up to request_count.
C18_RequestAndClassCounts ==
    (StatisticsCurrent /\ predictions # <<>>) =>
        /\ "prediction_counts" \in DOMAIN ret.value
        /\ ret.value.request_count = Len(predictions)
        /\ ret.value.request_count = Min2(done.calls, window_size)
        /\ DOMAIN ret.value.prediction_counts
            = {predictions[j] : j \in 1..Len(predictions)}
        /\ \A c \in DOMAIN ret.value.prediction_counts :
            ret.value.prediction_counts[c]
            = Cardinality({j \in 1..Len(predictions) : predictions[j] = c})
        /\ CountFor(ret.value.prediction_counts, 0)
            + CountFor(ret.value.prediction_counts, 1)
            + CountFor(ret.value.prediction_counts, 2)
            = ret.value.request_count

\* C18 witness: two predictions of the same class are in a window of two
\* and get_statistics has counted them.
C18_Witness ==
    /\ AllIdle
    /\ StatisticsCurrent
    /\ window_size = 2
    /\ done.calls = 2
    /\ "prediction_counts" \in DOMAIN ret.value
    /\ ret.value.request_count = 2
    /\ \E c \in DOMAIN ret.value.prediction_counts :
        ret.value.prediction_counts[c] = 2

\* C19: with window_size below 200 no detect_drift call returns a
\* relative_change or drift_detected = true for any feature, nor flags drift
\* for the report; with window_size below 100 every detect_drift call
\* reports insufficient data, whatever was recorded.
C19_SmallWindow ==
    ret.op = "detect_drift" =>
        /\ window_size < 200 =>
            /\ "raised" \notin DOMAIN ret.value
            /\ "drift_detected" \in DOMAIN ret.value => ~ret.value.drift_detected
            /\ "any_drift_detected" \in DOMAIN ret.value
                => ~ret.value.any_drift_detected
            /\ "feature_drift" \in DOMAIN ret.value =>
                \A k \in DOMAIN ret.value.feature_drift :
                    /\ "relative_change" \notin DOMAIN ret.value.feature_drift[k]
                    /\ ~ret.value.feature_drift[k].drift_detected
        /\ window_size < 100 =>
            ret.value = [drift_detected |-> FALSE, reason |-> "Insufficient data"]

\* C19 witness: a window of 150 is full, of 5.0 then 6.0 and one more
\* request, and detect_drift has returned entries without a relative_change.
C19_Witness ==
    /\ AllIdle
    /\ ret.op = "detect_drift"
    /\ window_size = 150
    /\ done.calls > 200
    /\ Len(FirstValues(feature_values)) = window_size
    /\ "feature_drift" \in DOMAIN ret.value
    /\ 0 \in DOMAIN ret.value.feature_drift

\* C20: in every reachable state, also in the middle of a call, the feature
\* keys are feature_0 .. feature_{k-1} for some k, created in that order; a
\* buffer is never longer than the buffer of a lower index; no feature buffer
\* and not the latency buffer is longer than the prediction buffer; so the
\* first-created buffer, the one the gate of detect_drift reads, is a longest.
C20_FeatureBufferShape ==
    /\ Keys(feature_values) = 0..(Len(feature_values) - 1)
    /\ \A j \in 1..Len(feature_values) : feature_values[j].key = j - 1
    /\ \A i, j \in 1..Len(feature_values) :
        i <= j => Len(feature_values[j].values) <= Len(feature_values[i].values)
    /\ \A j \in 1..Len(feature_values) :
        Len(feature_values[j].values) <= Len(predictions)
    /\ Len(latencies) <= Len(predictions)
    /\ \A k \in Keys(feature_values) :
        Len(ValuesOf(feature_values, k)) <= Len(FirstValues(feature_values))

\* C20 witness: requests with two features and with one, with and without a
\* latency, have returned: the second feature buffer and the latency buffer
\* are shorter than the first feature buffer and the prediction buffer.
C20_Witness ==
    /\ AllIdle
    /\ Len(feature_values) = 2
    /\ Len(feature_values[2].values) < Len(feature_values[1].values)
    /\ Len(feature_values[1].values) = Len(predictions)
    /\ Len(latencies) < Len(predictions)
    /\ Len(latencies) > 0

====
